---- MODULE Spec2Model ----
(***************************************************************************)
(* Camera monitoring bot: the polling loop (check_motion), frame fetch,    *)
(* motion detection, alert cooldown and the command handlers of the two    *)
(* revisions, tgalert2-stable.py (rev = 2) and tgalert3-halfpoop.py        *)
(* (rev = 3).                                                              *)
(*                                                                         *)
(* Scheduling: everything runs on one asyncio event loop.  A coroutine     *)
(* gives up the thread only at an await that really suspends: the          *)
(* delivery call bot.send_photo and asyncio.sleep.  requests.head/get and  *)
(* cv2.VideoCapture are blocking calls, and acquiring the asyncio.Lock     *)
(* when it is free does not suspend.  So a command handler runs only while *)
(* check_motion is parked at pc = "sending" or pc = "sleep" (or is dead),  *)
(* and check_motion runs only while no handler is in the middle of a call. *)
(*                                                                         *)
(* Frames are uniform achromatic images [w, h, v, ch]: w x h pixels, every *)
(* pixel of grey level v, ch = 3 for a decoded BGR frame and ch = 1 for a  *)
(* single-channel image.  Time is in seconds.                              *)
(***************************************************************************)
EXTENDS Integers, Sequences, FiniteSets, TLC

VARIABLES
    rev,                \* which revision of the program runs
    cameras,            \* config["cameras"]: the dict's entry slots, in order
    motion_enabled,     \* config["motion_enabled"]
    threshold,          \* config["threshold"]
    camera_status,      \* self.camera_status
    prev_frames,        \* self.prev_frames
    last_notification,  \* self.last_notification
    mjpeg_streams,      \* self.mjpeg_streams (rev 3)
    lock,               \* self.lock (rev 3): who holds it
    openConns,          \* per camera: VideoCapture objects currently opened
    now,                \* time.time()
    pc,                 \* check_motion: where the task stands
    iter,               \* check_motion: the dict iterator of the for loop
    cam_id,             \* check_motion: loop variable cam_id
    cam_url,            \* check_motion: loop variable cam_data["url"]
    frame,              \* check_motion: the fetched frame
    current_time,       \* send_alert: local current_time while the delivery is awaited
    mj,                 \* the process_mjpeg_camera call in progress, if any
    crash,              \* the exception that ended check_motion, if any
    delivered,          \* history: capture times of the delivered alerts
    send_result,        \* history: how the latest send_alert call of the cycle ended
    det,                \* history: the detection pass of the camera being processed
    last_supplied,      \* history: per camera, the frame last given to detection
    removed_mid,        \* history: cameras removed while this cycle was suspended
    status_from,        \* history: per camera yet to be read by this cycle, who wrote its status
    config_file,        \* the configuration as save_config last wrote it
    threshold_at_sweep, \* history: rev 2, config["threshold"] when this cycle began,
                        \* kept while the cycle has a comparison to come
    alerted             \* history: the camera of the latest alert this cycle delivered

vars == <<rev, cameras, motion_enabled, threshold, camera_status, prev_frames,
          last_notification, mjpeg_streams, lock, openConns, now, pc, iter,
          cam_id, cam_url, frame, current_time, mj, crash, delivered,
          send_result, det, last_supplied, removed_mid, status_from, config_file,
          threshold_at_sweep, alerted>>

----------------------------------------------------------------------------
(* Bounds of the model *)

Cams == {"cam1", "cam2"}
MaxSlots == 2
MaxDelivered == 3
\* the clock is read in steps of TickSeconds seconds, MaxTicks times at most
TickSeconds == 15
MaxTicks == 2

(* Program constants *)
Cooldown == 30
MinContourArea == 1000
BinarizeCut == 25
SensitivityMin == 1000
SensitivityMax == 100000
DefaultThreshold == 30000

----------------------------------------------------------------------------
(* Partial maps (Python dicts whose order does not matter) *)

EmptyMap == [x \in {} |-> 0]
Put(f, k, v) == [x \in (DOMAIN f) \cup {k} |-> IF x = k THEN v ELSE f[x]]
Del(f, k) == [x \in (DOMAIN f) \ {k} |-> f[x]]

(* URLs: only the path matters to the program *)
SnapUrl == [path |-> <<"/", "s", ".", "j", "p", "g">>]
StreamUrl == [path |-> <<"/", "v", ".", "M", "J", "P", "G">>]
NoUrl == [path |-> <<>>]
Urls == {SnapUrl, StreamUrl}
\* the URLs given to /add
AddUrls == {SnapUrl}
\* the name given to /add
AddNames == {"cam2"}

Lower(ch) ==
    CASE ch = "M" -> "m"
      [] ch = "J" -> "j"
      [] ch = "P" -> "p"
      [] ch = "G" -> "g"
      [] ch = "E" -> "e"
      [] OTHER -> ch

LowerPath(p) == [i \in 1..Len(p) |-> Lower(p[i])]

Contains(s, sub) ==
    \E i \in 0..(Len(s) - Len(sub)) :
        \A j \in 1..Len(sub) : s[i + j] = sub[j]

is_mjpeg_url(url) ==
    \/ Contains(LowerPath(url.path), <<"m", "j", "p", "g">>)
    \/ Contains(LowerPath(url.path), <<"m", "j", "p", "e", "g">>)

----------------------------------------------------------------------------
(* config["cameras"]: an insertion-ordered dict.  Deleting a key leaves a  *)
(* hole in its slot; a new key takes the next slot at the end.             *)

Hole == [id |-> "-", url |-> NoUrl]
Slot(c, u) == [id |-> c, url |-> u]
Keys(cs) == {cs[i].id : i \in 1..Len(cs)} \ {"-"}
SlotOf(cs, c) == CHOOSE i \in 1..Len(cs) : cs[i].id = c
DictSet(cs, c, u) ==
    IF c \in Keys(cs)
    THEN [cs EXCEPT ![SlotOf(cs, c)] = Slot(c, u)]
    ELSE Append(cs, Slot(c, u))
DictDel(cs, c) == [cs EXCEPT ![SlotOf(cs, c)] = Hole]

(* iter(d.items()) and next() on it *)
NewIter(cs) == [pos |-> 0, used |-> Cardinality(Keys(cs)), len |-> Cardinality(Keys(cs))]
LiveAfter(cs, p) == {i \in (p + 1)..Len(cs) : cs[i] # Hole}
Min(S) == CHOOSE x \in S : \A y \in S : x <= y
IterOutcome(cs, it) ==
    IF it.used # Cardinality(Keys(cs)) THEN "size_changed"
    ELSE IF LiveAfter(cs, it.pos) = {} THEN "stop"
    ELSE IF it.len = 0 THEN "keys_changed"
    ELSE "item"

----------------------------------------------------------------------------
(* Frames and the image operations on them *)

Bgr(w, h, v) == [w |-> w, h |-> h, v |-> v, ch |-> 3]
Frames == {Bgr(40, 30, 0), Bgr(40, 30, 25), Bgr(40, 30, 100), Bgr(2, 2, 0)}
NoFrame == [w |-> 0, h |-> 0, v |-> 0, ch |-> 0]

Abs(x) == IF x < 0 THEN -x ELSE x
SameSize(a, b) == a.w = b.w /\ a.h = b.h

\* cv2.cvtColor(f, COLOR_BGR2GRAY): one channel; an achromatic pixel keeps its level
cvtColor(f) == [f EXCEPT !.ch = 1]
\* cv2.GaussianBlur(g, (21, 21), 0): every pixel a weighted mean of its
\* neighbourhood (border reflected), so a uniform image keeps its level
GaussianBlur(g) == [g EXCEPT !.v = (g.v * 21 * 21) \div (21 * 21)]
\* cv2.absdiff: defined for images of one size (it raises otherwise)
absdiff(a, b) == [a EXCEPT !.v = Abs(a.v - b.v)]
\* cv2.threshold(d, 25, 255, THRESH_BINARY)
BinThreshold(d) == [d EXCEPT !.v = IF d.v > BinarizeCut THEN 255 ELSE 0]
\* np.sum over the pixels
PixelSum(t) == t.w * t.h * t.v
\* dilate twice, erode once with a 5x5 kernel: an all-set or all-clear image is unchanged
Morph(t) == t
\* cv2.findContours(RETR_EXTERNAL) and cv2.contourArea: an all-set image has one
\* contour, through the centres of its border pixels
ContourAreas(t) == IF t.v = 255 THEN {(t.w - 1) * (t.h - 1)} ELSE {}

----------------------------------------------------------------------------
(* Motion detection *)

\* rev 2, calculate_motion(prev_frame, current_frame): the motion level
calculate_motion_v2(prev, cur) ==
    PixelSum(BinThreshold(absdiff(cvtColor(prev), cvtColor(cur))))

\* rev 2: "motion > self.config['threshold']"
ExceedsThreshold(motion, thr) == motion > thr

\* rev 3: the reference image kept for a frame
Reference(f) == GaussianBlur(cvtColor(f))

\* rev 3: the loop over the contours
ContourMotion(areas) == \E a \in areas : ~(a < MinContourArea)

\* calculate_motion of rev 3 without line 156: the first frame is not kept
calculate_motion_v3_FirstNotKept(pf, f, c) ==
    LET gray == Reference(f) IN
    IF c \notin DOMAIN pf \/ ~SameSize(pf[c], gray)
    THEN [motion |-> FALSE, prev |-> pf]
    ELSE [motion |-> ContourMotion(ContourAreas(Morph(BinThreshold(absdiff(pf[c], gray))))),
          prev   |-> Put(pf, c, gray)]

\* rev 3, calculate_motion(frame, cam_id): the motion flag and self.prev_frames
\* afterwards.  absdiff raises on images of different sizes; the except clause
\* catches it and returns (False, frame) with prev_frames as it was.
calculate_motion_v3(pf, f, c) ==
    LET gray == Reference(f) IN
    IF c \notin DOMAIN pf
    THEN [motion |-> FALSE, prev |-> Put(pf, c, gray)]
    ELSE IF ~SameSize(pf[c], gray)
    THEN [motion |-> FALSE, prev |-> pf]
    ELSE [motion |-> ContourMotion(ContourAreas(Morph(BinThreshold(absdiff(pf[c], gray))))),
          prev   |-> Put(pf, c, gray)]

----------------------------------------------------------------------------
(* Alerts *)

\* the cooldown test with the comparison turned round
InCooldown_Inverted(t, last) == t - last > Cooldown

\* a cooldown test that lets every attempt through
InCooldown_Never(t, last) == FALSE

\* send_alert: "current_time - self.last_notification < cooldown"
InCooldown(t, last) == t - last < Cooldown

\* the timestamp written whether or not the delivery succeeded
NotificationAfter_Always(ok, t, last) == t

\* send_alert: self.last_notification once the delivery attempt is over
NotificationAfter(ok, t, last) == IF ok THEN t ELSE last

\* where control goes when send_alert returns
AfterAlert == IF rev = 2 THEN "store" ELSE "next"

----------------------------------------------------------------------------
\* time.time() when the program starts: late enough for a first alert
StartTime == Cooldown
MaxTime == StartTime + MaxTicks * TickSeconds

(* Initial state: the object as __init__ leaves it, config as load_config  *)
(* returned it.                                                            *)

LoadedThresholds == {-1, DefaultThreshold}
SensitivityInputs == {SensitivityMin - 1, SensitivityMin, SensitivityMax + 1}
LoadedCameras ==
    IF rev = 2
    THEN {<<Slot("cam1", SnapUrl)>>}
    ELSE {<<Slot("cam1", StreamUrl), Slot("cam2", SnapUrl)>>}

\* save_config: json.dump of the whole configuration (the file system is taken to
\* work: a write that fails is only logged)
Saved(cs, enabled, thr) ==
    [cameras |-> SelectSeq(cs, LAMBDA e : e # Hole), motion_enabled |-> enabled,
     threshold |-> thr]

NoIter == [pos |-> 0, used |-> 0, len |-> 0]
NoCall == [caller |-> "none", cam |-> "-", url |-> NoUrl, phase |-> "-", local |-> "none"]
NoDet == [cam |-> "-", frame |-> NoFrame, ref |-> NoFrame, before |-> NoFrame,
          motion |-> FALSE, raised |-> FALSE, returned |-> FALSE]

Init ==
    /\ rev \in {2, 3}
    /\ cameras \in LoadedCameras
    /\ motion_enabled = TRUE
    /\ threshold \in (IF rev = 2 THEN LoadedThresholds ELSE {DefaultThreshold})
    /\ camera_status = EmptyMap
    /\ prev_frames = EmptyMap
    /\ last_notification = 0
    /\ mjpeg_streams = EmptyMap
    /\ lock = "free"
    /\ openConns = [c \in Cams |-> 0]
    /\ now = StartTime
    /\ pc = "cycle"
    /\ iter = NoIter
    /\ cam_id = "-"
    /\ cam_url = NoUrl
    /\ frame = NoFrame
    /\ current_time = 0
    /\ mj = NoCall
    /\ crash = "none"
    /\ delivered = << >>
    /\ send_result = "none"
    /\ det = NoDet
    /\ last_supplied = [c \in Cams |-> NoFrame]
    /\ removed_mid = {}
    /\ status_from = [c \in Cams |-> "none"]
    /\ threshold_at_sweep = 0
    /\ alerted = "-"
    /\ config_file = Saved(cameras, motion_enabled, threshold)

\* "async with self.lock": the lock can be taken without waiting
Acquirable(l) == l = "free"

\* check_motion has the thread unless a handler is inside a call
SchedMayRun == mj.caller # "snap"
\* a handler starts only while check_motion is parked at an await, or dead
HandlerMayRun == pc \in {"sending", "sleep", "crashed"} /\ mj.caller = "none"

----------------------------------------------------------------------------
(* check_cameras_status: the probe of every registered camera *)

\* a sweep that records nothing
Swept_Nothing(status, cs, probe) == status

\* a sweep that stops at the first camera whose probe fails
Swept_AbortOnFailure(status, cs, probe) ==
    LET failed == {i \in 1..Len(cs) : cs[i] # Hole /\ ~probe[cs[i].id]}
        done   == {cs[i].id : i \in {j \in 1..Len(cs) :
                                       cs[j] # Hole /\ \A k \in failed : j <= k}}
    IN  [c \in (DOMAIN status) \cup done |-> IF c \in done THEN probe[c] ELSE status[c]]

\* lines 73-83: every registered camera gets the outcome of its own probe; the
\* entries of other ids stay
Swept(status, cs, probe) ==
    [c \in (DOMAIN status) \cup Keys(cs) |-> IF c \in Keys(cs) THEN probe[c] ELSE status[c]]

\* check_motion: "await self.check_cameras_status()", then the test of motion_enabled
SchedSweep ==
    /\ pc = "cycle" /\ SchedMayRun /\ Acquirable(lock)
    /\ \E probe \in [Keys(cameras) -> BOOLEAN] :
           camera_status' = Swept(camera_status, cameras, probe)
    /\ IF motion_enabled
       THEN /\ pc' = "next" /\ iter' = NewIter(cameras)
            /\ status_from' = [c \in Cams |-> IF c \in Keys(cameras) THEN "cycle" ELSE "none"]
            /\ threshold_at_sweep' = IF rev = 2 THEN threshold ELSE 0
       ELSE /\ pc' = "sleep" /\ iter' = NoIter
            /\ UNCHANGED <<status_from, threshold_at_sweep>>
    /\ UNCHANGED <<rev, cameras, motion_enabled, threshold, prev_frames,
                   last_notification, mjpeg_streams, lock, openConns, now, cam_id,
                   cam_url, frame, current_time, mj, crash, delivered, send_result,
                   det, last_supplied, removed_mid, config_file, alerted>>

\* check_motion: the for loop asks the dict iterator for the next camera
IterNext ==
    /\ pc = "next" /\ SchedMayRun
    /\ LET out == IterOutcome(cameras, iter) IN
       CASE out \in {"size_changed", "keys_changed"} ->
              /\ pc' = "crashed" /\ crash' = "RuntimeError"
              /\ status_from' = [c \in Cams |-> "none"]
              /\ threshold_at_sweep' = 0 /\ alerted' = "-"
              /\ UNCHANGED <<iter, cam_id, cam_url, send_result, removed_mid>>
         [] out = "stop" ->
              /\ pc' = "sleep" /\ iter' = NoIter /\ cam_id' = "-" /\ cam_url' = NoUrl
              /\ send_result' = "none" /\ removed_mid' = {}
              /\ status_from' = [c \in Cams |-> "none"]
              /\ threshold_at_sweep' = 0 /\ alerted' = "-"
              /\ UNCHANGED crash
         [] out = "item" ->
              LET i == Min(LiveAfter(cameras, iter.pos)) IN
              /\ iter' = [iter EXCEPT !.pos = i, !.len = iter.len - 1]
              /\ cam_id' = cameras[i].id /\ cam_url' = cameras[i].url
              /\ pc' = IF cameras[i].id \in DOMAIN camera_status /\ camera_status[cameras[i].id]
                       THEN "fetch" ELSE "next"
              /\ UNCHANGED <<crash, send_result, removed_mid, status_from,
                             threshold_at_sweep, alerted>>
    /\ frame' = NoFrame /\ det' = NoDet
    /\ UNCHANGED <<rev, cameras, motion_enabled, threshold, camera_status, prev_frames,
                   last_notification, mjpeg_streams, lock, openConns, now,
                   current_time, mj, delivered, last_supplied, config_file>>

\* process_camera of rev 2 and process_jpeg_camera of rev 3: one GET; None on an
\* exception, a status other than 200 or a body that does not decode
FetchSnapshot ==
    /\ pc = "fetch" /\ SchedMayRun
    /\ rev = 2 \/ ~is_mjpeg_url(cam_url)
    /\ \/ frame' = NoFrame /\ pc' = "next"
       \/ \E f \in Frames : frame' = f /\ pc' = "detect"
    /\ UNCHANGED <<rev, cameras, motion_enabled, threshold, camera_status, prev_frames,
                   last_notification, mjpeg_streams, lock, openConns, now, iter, cam_id,
                   cam_url, current_time, mj, crash, delivered, send_result, det,
                   last_supplied, removed_mid, status_from, config_file,
                   threshold_at_sweep, alerted>>

----------------------------------------------------------------------------
(* process_mjpeg_camera (rev 3).  The call holds self.lock from entry to   *)
(* return.  mj.local is the VideoCapture object the local variable stream  *)
(* refers to and that is not stored in mjpeg_streams: the released one of  *)
(* lines 112-118, or the new one of lines 121-126.                         *)

\* the caller goes on to detection whatever the fetch returned
ReturnTo_AlwaysDetect(result) ==
    /\ mj' = NoCall
    /\ lock' = "free"
    /\ IF mj.caller = "sched"
       THEN frame' = result /\ pc' = "detect"
       ELSE UNCHANGED <<frame, pc>>

\* the caller gets the result and self.lock stays held
ReturnTo_LockKept(result) ==
    /\ mj' = NoCall
    /\ UNCHANGED lock
    /\ IF mj.caller = "sched"
       THEN /\ frame' = result
            /\ pc' = IF result = NoFrame THEN "next" ELSE "detect"
       ELSE UNCHANGED <<frame, pc>>

\* the caller gets the result; self.lock is released on the way out
ReturnTo(result) ==
    /\ mj' = NoCall
    /\ lock' = "free"
    /\ IF mj.caller = "sched"
       THEN /\ frame' = result
            /\ pc' = IF result = NoFrame THEN "next" ELSE "detect"
       ELSE UNCHANGED <<frame, pc>>

\* check_motion -> process_camera -> process_mjpeg_camera: "async with self.lock"
SchedMjpegCall ==
    /\ pc = "fetch" /\ SchedMayRun
    /\ rev = 3 /\ is_mjpeg_url(cam_url)
    /\ Acquirable(lock)
    /\ lock' = "sched"
    /\ mj' = [caller |-> "sched", cam |-> cam_id, url |-> cam_url,
              phase |-> "read", local |-> "none"]
    /\ pc' = "mjpeg"
    /\ UNCHANGED <<rev, cameras, motion_enabled, threshold, camera_status, prev_frames,
                   last_notification, mjpeg_streams, openConns, now, iter, cam_id,
                   cam_url, frame, current_time, crash, delivered, send_result,
                   det, last_supplied, removed_mid, status_from, config_file,
                   threshold_at_sweep, alerted>>

\* the failed stream left in the map
StreamsAfterFailedRead_Kept(streams, c) == streams

\* lines 111-118: the stored stream's handle after a read that failed
StreamsAfterFailedRead(streams, c) == Del(streams, c)
\* the failed stream dropped from the map without stream.release()
ConnsAfterFailedRead_NoRelease(conns, c) == conns

\* line 117: stream.release() closes the connection
ConnsAfterFailedRead(conns, c) == [conns EXCEPT ![c] = conns[c] - 1]

\* lines 111-118: read from the stored stream if there is an opened one
MjpegRead ==
    /\ mj.phase = "read"
    /\ IF mj.cam \in DOMAIN mjpeg_streams /\ mjpeg_streams[mj.cam].open
       THEN \/ /\ \E f \in (IF mj.caller = "sched" THEN Frames
                            ELSE {CHOOSE g \in Frames : TRUE}) : ReturnTo(f)
               /\ UNCHANGED <<mjpeg_streams, openConns>>
            \/ /\ mjpeg_streams' = StreamsAfterFailedRead(mjpeg_streams, mj.cam)
               /\ openConns' = ConnsAfterFailedRead(openConns, mj.cam)
               /\ mj' = [mj EXCEPT !.phase = "open", !.local = "released"]
               /\ UNCHANGED <<lock, frame, pc>>
       ELSE /\ mj' = [mj EXCEPT !.phase = "open"]
            /\ UNCHANGED <<mjpeg_streams, openConns, lock, frame, pc>>
    /\ UNCHANGED <<rev, cameras, motion_enabled, threshold, camera_status, prev_frames,
                   last_notification, now, iter, cam_id, cam_url, current_time, crash,
                   delivered, send_result, det, last_supplied, removed_mid,
                   status_from, config_file,
                   threshold_at_sweep, alerted>>

\* the new stream returned to the caller without being stored
StreamsAfterOpen_NotStored(streams, c) == streams

\* line 125: self.mjpeg_streams[cam_id] = stream
StreamsAfterOpen(streams, c) == Put(streams, c, [open |-> TRUE])

\* lines 120-129: one cv2.VideoCapture(url).  It raises (the local variable keeps
\* what it held), or yields an object that is not opened, or one that is opened
\* whose first read fails, or one that is opened and read: only the last is stored.
MjpegOpen ==
    /\ mj.phase = "open"
    /\ \/ /\ mj' = [mj EXCEPT !.phase = "ret"]
          /\ UNCHANGED <<mjpeg_streams, openConns, lock, frame, pc>>
       \/ /\ mj' = [mj EXCEPT !.phase = "ret", !.local = "unopened"]
          /\ UNCHANGED <<mjpeg_streams, openConns, lock, frame, pc>>
       \/ /\ mj' = [mj EXCEPT !.phase = "ret", !.local = "opened"]
          /\ openConns' = [openConns EXCEPT ![mj.cam] = openConns[mj.cam] + 1]
          /\ UNCHANGED <<mjpeg_streams, lock, frame, pc>>
       \/ /\ mjpeg_streams' = StreamsAfterOpen(mjpeg_streams, mj.cam)
          /\ openConns' = [openConns EXCEPT ![mj.cam] = openConns[mj.cam] + 1]
          /\ \E f \in (IF mj.caller = "sched" THEN Frames
                       ELSE {CHOOSE g \in Frames : TRUE}) : ReturnTo(f)
    /\ UNCHANGED <<rev, cameras, motion_enabled, threshold, camera_status, prev_frames,
                   last_notification, now, iter, cam_id, cam_url, current_time, crash,
                   delivered, send_result, det, last_supplied, removed_mid,
                   status_from, config_file,
                   threshold_at_sweep, alerted>>

\* the last reference to an unstored VideoCapture goes with the call's frame:
\* the object is deallocated, which releases its connection
ConnsAfterReturn(conns, c, local) ==
    IF local = "opened" THEN [conns EXCEPT ![c] = conns[c] - 1] ELSE conns

\* line 129: return None
MjpegReturn ==
    /\ mj.phase = "ret"
    /\ openConns' = ConnsAfterReturn(openConns, mj.cam, mj.local)
    /\ ReturnTo(NoFrame)
    /\ UNCHANGED <<rev, cameras, motion_enabled, threshold, camera_status, prev_frames,
                   last_notification, mjpeg_streams, now, iter, cam_id, cam_url,
                   current_time, crash, delivered, send_result, det, last_supplied,
                   removed_mid, status_from, config_file,
                   threshold_at_sweep, alerted>>

----------------------------------------------------------------------------
(* Detection and alerting inside check_motion *)

\* rev 2, detect_and_alert up to the call of send_alert.  calculate_motion is not
\* guarded: the cv2.error of absdiff on frames of different sizes leaves
\* detect_and_alert and check_motion.
Detect2 ==
    /\ pc = "detect" /\ SchedMayRun /\ rev = 2
    /\ last_supplied' = [last_supplied EXCEPT ![cam_id] = frame]
    /\ IF cam_id \in DOMAIN prev_frames
       THEN LET prev == prev_frames[cam_id] IN
            IF ~SameSize(prev, frame)
            THEN /\ pc' = "crashed" /\ crash' = "cv2.error"
                 /\ det' = [cam |-> cam_id, frame |-> frame, ref |-> prev,
                            before |-> last_supplied[cam_id],
                            motion |-> FALSE, raised |-> TRUE, returned |-> FALSE]
                 /\ UNCHANGED prev_frames
            ELSE IF ExceedsThreshold(calculate_motion_v2(prev, frame), threshold)
            THEN /\ pc' = "alert"
                 /\ det' = [cam |-> cam_id, frame |-> frame, ref |-> prev,
                            before |-> last_supplied[cam_id],
                            motion |-> TRUE, raised |-> FALSE, returned |-> FALSE]
                 /\ UNCHANGED <<prev_frames, crash>>
            ELSE /\ pc' = "next"
                 /\ prev_frames' = Put(prev_frames, cam_id, frame)
                 /\ det' = [cam |-> cam_id, frame |-> frame, ref |-> prev,
                            before |-> last_supplied[cam_id],
                            motion |-> FALSE, raised |-> FALSE, returned |-> TRUE]
                 /\ UNCHANGED crash
       ELSE /\ pc' = "next"
            /\ prev_frames' = Put(prev_frames, cam_id, frame)
            /\ det' = [cam |-> cam_id, frame |-> frame, ref |-> NoFrame,
                       before |-> last_supplied[cam_id],
                       motion |-> FALSE, raised |-> FALSE, returned |-> TRUE]
            /\ UNCHANGED crash
    /\ status_from' = IF pc' = "crashed" THEN [c \in Cams |-> "none"] ELSE status_from
    /\ threshold_at_sweep' = IF pc' = "crashed" \/ LiveAfter(cameras, iter.pos) = {}
                             THEN 0 ELSE threshold_at_sweep
    /\ alerted' = IF pc' = "crashed" THEN "-" ELSE alerted
    /\ UNCHANGED <<rev, cameras, motion_enabled, threshold, camera_status,
                   last_notification, mjpeg_streams, lock, openConns, now, iter, cam_id,
                   cam_url, frame, current_time, mj, delivered, send_result,
                   removed_mid, config_file>>

\* rev 2, detect_and_alert line 112, reached when send_alert has returned
StorePrev ==
    /\ pc = "store" /\ SchedMayRun /\ rev = 2
    /\ prev_frames' = Put(prev_frames, cam_id, frame)
    /\ det' = [det EXCEPT !.returned = TRUE]
    /\ pc' = "next"
    /\ UNCHANGED <<rev, cameras, motion_enabled, threshold, camera_status,
                   last_notification, mjpeg_streams, lock, openConns, now, iter, cam_id,
                   cam_url, frame, current_time, mj, crash, delivered, send_result,
                   last_supplied, removed_mid, status_from, config_file,
                   threshold_at_sweep, alerted>>

\* rev 3, check_motion lines 144-146: calculate_motion, then send_alert on motion
Detect3 ==
    /\ pc = "detect" /\ SchedMayRun /\ rev = 3
    /\ last_supplied' = [last_supplied EXCEPT ![cam_id] = frame]
    /\ LET r == calculate_motion_v3(prev_frames, frame, cam_id) IN
       /\ prev_frames' = r.prev
       /\ det' = [cam |-> cam_id, frame |-> frame,
                  ref |-> IF cam_id \in DOMAIN prev_frames THEN prev_frames[cam_id] ELSE NoFrame,
                  before |-> last_supplied[cam_id],
                  motion |-> r.motion, raised |-> FALSE, returned |-> TRUE]
       /\ pc' = IF r.motion THEN "alert" ELSE "next"
    /\ UNCHANGED <<rev, cameras, motion_enabled, threshold, camera_status,
                   last_notification, mjpeg_streams, lock, openConns, now, iter, cam_id,
                   cam_url, frame, current_time, mj, crash, delivered, send_result,
                   removed_mid, status_from, config_file,
                   threshold_at_sweep, alerted>>

\* a send_alert whose cooldown test counts only the alerts of the same camera
AlertCheck_PerCamera ==
    /\ pc = "alert" /\ SchedMayRun
    /\ IF InCooldown(now, last_notification) /\ alerted \in {"-", cam_id}
       THEN pc' = AfterAlert /\ send_result' = "skipped" /\ UNCHANGED current_time
       ELSE \/ /\ Len(delivered) < MaxDelivered
               /\ pc' = "sending" /\ current_time' = now /\ UNCHANGED send_result
            \/ pc' = AfterAlert /\ send_result' = "encode_failed" /\ UNCHANGED current_time
    /\ UNCHANGED <<rev, cameras, motion_enabled, threshold, camera_status, prev_frames,
                   last_notification, mjpeg_streams, lock, openConns, now, iter, cam_id,
                   cam_url, frame, mj, crash, delivered, det, last_supplied,
                   removed_mid, status_from, config_file, threshold_at_sweep, alerted>>

\* send_alert up to the await: the cooldown test, then the encoding of the frame.
\* An encoding that fails ends in the except clause (rev 3: imencode raises inside
\* the try; rev 2: imwrite writes nothing and open() raises inside the try).
AlertCheck ==
    /\ pc = "alert" /\ SchedMayRun
    /\ IF InCooldown(now, last_notification)
       THEN pc' = AfterAlert /\ send_result' = "skipped" /\ UNCHANGED current_time
       ELSE \/ /\ Len(delivered) < MaxDelivered
               /\ pc' = "sending" /\ current_time' = now /\ UNCHANGED send_result
            \/ pc' = AfterAlert /\ send_result' = "encode_failed" /\ UNCHANGED current_time
    /\ UNCHANGED <<rev, cameras, motion_enabled, threshold, camera_status, prev_frames,
                   last_notification, mjpeg_streams, lock, openConns, now, iter, cam_id,
                   cam_url, frame, mj, crash, delivered, det, last_supplied,
                   removed_mid, status_from, config_file,
                   threshold_at_sweep, alerted>>

\* send_alert after "await self.bot.send_photo(...)": it returned, or it raised
\* and the except clause logged the error
Deliver ==
    /\ pc = "sending" /\ SchedMayRun
    /\ \E ok \in BOOLEAN :
          /\ last_notification' = NotificationAfter(ok, current_time, last_notification)
          /\ delivered' = IF ok THEN Append(delivered, current_time) ELSE delivered
          /\ send_result' = IF ok THEN "ok" ELSE "fail"
          /\ alerted' = IF ok THEN cam_id ELSE alerted
    /\ pc' = AfterAlert
    /\ current_time' = 0
    /\ UNCHANGED <<rev, cameras, motion_enabled, threshold, camera_status, prev_frames,
                   mjpeg_streams, lock, openConns, now, iter, cam_id, cam_url, frame,
                   mj, crash, det, last_supplied, removed_mid, status_from, config_file,
                   threshold_at_sweep>>

\* check_motion: asyncio.sleep(check_interval) is over
Wake ==
    /\ pc = "sleep" /\ SchedMayRun
    /\ pc' = "cycle"
    /\ UNCHANGED <<rev, cameras, motion_enabled, threshold, camera_status, prev_frames,
                   last_notification, mjpeg_streams, lock, openConns, now, iter, cam_id,
                   cam_url, frame, current_time, mj, crash, delivered, send_result,
                   det, last_supplied, removed_mid, status_from, config_file,
                   threshold_at_sweep, alerted>>

\* the clock advances
Tick ==
    /\ now + TickSeconds <= MaxTime
    /\ now' = now + TickSeconds
    /\ UNCHANGED <<rev, cameras, motion_enabled, threshold, camera_status, prev_frames,
                   last_notification, mjpeg_streams, lock, openConns, pc, iter, cam_id,
                   cam_url, frame, current_time, mj, crash, delivered, send_result,
                   det, last_supplied, removed_mid, status_from, config_file,
                   threshold_at_sweep, alerted>>

----------------------------------------------------------------------------
(* Command handlers *)

\* rev 2, add_camera line 327: "await system.check_camera(...)".  CameraSystem
\* defines check_cameras_status and no check_camera, so the attribute lookup raises
AddCameraOutcome == "AttributeError"

\* rev 2, add_camera: the entry is written and saved; the next statement,
\* "await system.check_camera(...)", names a method CameraSystem does not have,
\* so the handler ends there with AttributeError and writes no status
AddCamera(c, u) ==
    /\ rev = 2 /\ HandlerMayRun
    /\ c \in Keys(cameras) \/ Len(cameras) < MaxSlots
    /\ cameras' = DictSet(cameras, c, u)
    /\ config_file' = Saved(cameras', motion_enabled, threshold)
    /\ removed_mid' = removed_mid \ {c}
    /\ UNCHANGED <<rev, motion_enabled, threshold, camera_status, prev_frames,
                   last_notification, mjpeg_streams, lock, openConns, now, pc, iter,
                   cam_id, cam_url, frame, current_time, mj, crash, delivered,
                   send_result, det, last_supplied, status_from, threshold_at_sweep,
                   alerted>>

\* rev 2, remove_camera of a registered camera
RemoveCamera(c) ==
    /\ rev = 2 /\ HandlerMayRun
    /\ c \in Keys(cameras)
    /\ cameras' = DictDel(cameras, c)
    /\ config_file' = Saved(cameras', motion_enabled, threshold)
    /\ camera_status' = Del(camera_status, c)
    /\ removed_mid' = IF pc = "sending" THEN removed_mid \cup {c} ELSE removed_mid
    /\ status_from' = [status_from EXCEPT ![c] = "none"]
    /\ UNCHANGED <<rev, motion_enabled, threshold, prev_frames, last_notification,
                   mjpeg_streams, lock, openConns, now, pc, iter, cam_id, cam_url, frame,
                   current_time, mj, crash, delivered, send_result, det,
                   last_supplied, threshold_at_sweep, alerted>>

\* the new value taken without the range check
ThresholdAfter_Unchecked(thr, v) == v

\* rev 2, CameraSystem.set_sensitivity
ThresholdAfter(thr, v) ==
    IF SensitivityMin <= v /\ v <= SensitivityMax THEN v ELSE thr

\* line 155: the value is accepted
Accepted(v) == SensitivityMin <= v /\ v <= SensitivityMax

\* "/sensitivity <integer>": the handler parses the argument and calls
\* set_sensitivity, which saves the configuration only when it accepts the value
SetSensitivity(v) ==
    /\ rev = 2 /\ HandlerMayRun
    /\ threshold' = ThresholdAfter(threshold, v)
    /\ config_file' = IF Accepted(v) THEN Saved(cameras, motion_enabled, threshold')
                                     ELSE config_file
    /\ UNCHANGED <<rev, cameras, motion_enabled, camera_status, prev_frames,
                   last_notification, mjpeg_streams, lock, openConns, now, pc, iter,
                   cam_id, cam_url, frame, current_time, mj, crash, delivered,
                   send_result, det, last_supplied, removed_mid, status_from,
                   threshold_at_sweep, alerted>>

\* arguments of /sensitivity that int() does not parse
SensitivityTexts == {"high", "5000.5"}

\* "/sensitivity <text>": int(context.args[0]) raises ValueError (handler line
\* 272; set_sensitivity line 154 for a direct call) and nothing is changed
SetSensitivityText(t) ==
    /\ rev = 2 /\ HandlerMayRun
    /\ t \in SensitivityTexts
    /\ UNCHANGED vars

\* toggle_motion_detection: "/motion on|off" in rev 2, the menu button that
\* flips the setting in rev 3
ToggleMotion(state) ==
    /\ HandlerMayRun
    /\ rev = 3 => state = ~motion_enabled
    /\ motion_enabled' = state
    /\ config_file' = Saved(cameras, state, threshold)
    /\ UNCHANGED <<rev, cameras, threshold, camera_status, prev_frames,
                   last_notification, mjpeg_streams, lock, openConns, now, pc, iter,
                   cam_id, cam_url, frame, current_time, mj, crash, delivered,
                   send_result, det, last_supplied, removed_mid, status_from,
                   threshold_at_sweep, alerted>>

\* "/check" in rev 2, the refresh button in rev 3: check_cameras_status
CheckCameras ==
    /\ HandlerMayRun /\ Acquirable(lock)
    /\ \E probe \in [Keys(cameras) -> BOOLEAN] :
           camera_status' = Swept(camera_status, cameras, probe)
    /\ status_from' = IF pc = "sending"
                      THEN [c \in Cams |->
                              IF c \in Keys(cameras) /\ SlotOf(cameras, c) > iter.pos
                              THEN "handler" ELSE status_from[c]]
                      ELSE status_from
    /\ UNCHANGED <<rev, cameras, motion_enabled, threshold, prev_frames,
                   last_notification, mjpeg_streams, lock, openConns, now, pc, iter,
                   cam_id, cam_url, frame, current_time, mj, crash, delivered,
                   send_result, det, last_supplied, removed_mid, config_file,
                   threshold_at_sweep, alerted>>

\* a manual snapshot that enters process_mjpeg_camera whatever else is going on
SnapshotMjpegCall_Unserialized(c) ==
    /\ rev = 3
    /\ c \in Keys(cameras) /\ is_mjpeg_url(cameras[SlotOf(cameras, c)].url)
    /\ lock' = "snap"
    /\ mj' = [caller |-> "snap", cam |-> c, url |-> cameras[SlotOf(cameras, c)].url,
              phase |-> "read", local |-> "none"]
    /\ UNCHANGED <<rev, cameras, motion_enabled, threshold, camera_status, prev_frames,
                   last_notification, mjpeg_streams, openConns, now, pc, iter, cam_id,
                   cam_url, frame, current_time, crash, delivered, send_result, det,
                   last_supplied, removed_mid, status_from, config_file,
                   threshold_at_sweep, alerted>>

\* rev 3, send_snapshot -> get_snapshot -> process_camera -> process_mjpeg_camera
SnapshotMjpegCall(c) ==
    /\ rev = 3 /\ HandlerMayRun
    /\ c \in Keys(cameras) /\ is_mjpeg_url(cameras[SlotOf(cameras, c)].url)
    /\ Acquirable(lock)
    /\ lock' = "snap"
    /\ mj' = [caller |-> "snap", cam |-> c, url |-> cameras[SlotOf(cameras, c)].url,
              phase |-> "read", local |-> "none"]
    /\ UNCHANGED <<rev, cameras, motion_enabled, threshold, camera_status, prev_frames,
                   last_notification, mjpeg_streams, openConns, now, pc, iter, cam_id,
                   cam_url, frame, current_time, crash, delivered, send_result, det,
                   last_supplied, removed_mid, status_from, config_file,
                   threshold_at_sweep, alerted>>

----------------------------------------------------------------------------
Next ==
    \/ SchedSweep
    \/ IterNext
    \/ FetchSnapshot
    \/ SchedMjpegCall
    \/ MjpegRead
    \/ MjpegOpen
    \/ MjpegReturn
    \/ Detect2
    \/ StorePrev
    \/ Detect3
    \/ AlertCheck
    \/ Deliver
    \/ Wake
    \/ Tick
    \/ \E c \in AddNames, u \in AddUrls : AddCamera(c, u)
    \/ \E c \in Cams : RemoveCamera(c)
    \/ \E v \in SensitivityInputs : SetSensitivity(v)
    \/ \E t \in SensitivityTexts : SetSensitivityText(t)
    \/ \E state \in BOOLEAN : ToggleMotion(state)
    \/ CheckCameras
    \/ \E c \in Cams : SnapshotMjpegCall(c)

Spec == Init /\ [][Next]_vars

\* rev 2 alone: the scheduled check_motion and the command handlers
Init2 == Init /\ rev = 2

Next2 ==
    \/ SchedSweep
    \/ IterNext
    \/ FetchSnapshot
    \/ Detect2
    \/ StorePrev
    \/ AlertCheck
    \/ Deliver
    \/ Wake
    \/ Tick
    \/ \E c \in AddNames, u \in AddUrls : AddCamera(c, u)
    \/ \E c \in Cams : RemoveCamera(c)
    \/ \E v \in SensitivityInputs : SetSensitivity(v)
    \/ \E t \in SensitivityTexts : SetSensitivityText(t)
    \/ \E state \in BOOLEAN : ToggleMotion(state)
    \/ CheckCameras

Spec2 == Init2 /\ [][Next2]_vars

\* the steps of the check_motion task: every call it awaits returns and the event
\* loop resumes the task
SchedStep ==
    \/ SchedSweep
    \/ IterNext
    \/ FetchSnapshot
    \/ SchedMjpegCall
    \/ Detect2
    \/ StorePrev
    \/ Detect3
    \/ AlertCheck
    \/ Deliver
    \/ Wake

\* rev 2 under a fair event loop: a task that is ready again and again is run
LiveSpec2 == Spec2 /\ SF_vars(SchedStep)

----------------------------------------------------------------------------
(* Shutdown of rev 3.  asyncio.run turns Ctrl-C into the cancellation of   *)
(* main, which arrives at its "await asyncio.sleep(3600)" as               *)
(* CancelledError; a KeyboardInterrupt raised in main itself is the other  *)
(* way in.  Only the second is caught by "except (KeyboardInterrupt,       *)
(* SystemExit)", which stops the application.  The finally block awaits    *)
(* app.shutdown() and then system.cleanup(): Application.shutdown raises   *)
(* RuntimeError while the application is still running, so after a         *)
(* cancellation cleanup is not reached.                                    *)

\* cleanup lines 207-210: every stored stream that is opened is released, then
\* the map is cleared
ConnsAfterCleanup(conns, streams) ==
    [c \in Cams |-> IF c \in DOMAIN streams /\ streams[c].open
                    THEN conns[c] - 1 ELSE conns[c]]
StreamsAfterCleanup(streams) == EmptyMap

\* the ways main's try block is left
Interrupts == {"KeyboardInterrupt", "CancelledError"}

\* main lines 376-384, and the end of the check_motion task with the event loop
Shutdown(how) ==
    /\ rev = 3 /\ HandlerMayRun
    /\ IF how = "KeyboardInterrupt"
       THEN /\ Acquirable(lock)
            /\ openConns' = ConnsAfterCleanup(openConns, mjpeg_streams)
            /\ mjpeg_streams' = StreamsAfterCleanup(mjpeg_streams)
       ELSE UNCHANGED <<openConns, mjpeg_streams>>
    /\ pc' = "cancelled"
    /\ UNCHANGED <<rev, cameras, motion_enabled, threshold, camera_status, prev_frames,
                   last_notification, lock, now, iter, cam_id, cam_url, frame,
                   current_time, mj, crash, delivered, send_result, det,
                   last_supplied, removed_mid, status_from, config_file,
                   threshold_at_sweep, alerted>>

\* rev 3 from start to shutdown
Init3 == Init /\ rev = 3

Next3 ==
    \/ SchedSweep
    \/ IterNext
    \/ FetchSnapshot
    \/ SchedMjpegCall
    \/ MjpegRead
    \/ MjpegOpen
    \/ MjpegReturn
    \/ Detect3
    \/ AlertCheck
    \/ Deliver
    \/ Wake
    \/ Tick
    \/ \E state \in BOOLEAN : ToggleMotion(state)
    \/ CheckCameras
    \/ \E c \in Cams : SnapshotMjpegCall(c)
    \/ \E how \in Interrupts : Shutdown(how)

Spec3 == Init3 /\ [][Next3]_vars

----------------------------------------------------------------------------
(* Properties *)

\* the state of the CameraSystem object and of the configuration
ProgramState == <<cameras, motion_enabled, threshold, camera_status, prev_frames,
                  last_notification, mjpeg_streams, lock, openConns>>

DeliveredSpaced ==
    \A i, j \in 1..Len(delivered) : i < j => delivered[j] - delivered[i] >= Cooldown

\* a send_alert call made inside the cooldown window returns without a delivery
\* and without a change of state
SkipInCooldown ==
    (pc = "alert" /\ pc' # "alert" /\ now - last_notification < Cooldown)
        => (pc' = AfterAlert /\ delivered' = delivered /\ ProgramState' = ProgramState)

\* a send_alert call made outside the window goes on to the delivery (unless the
\* frame cannot be encoded)
AttemptWhenDue ==
    (pc = "alert" /\ pc' # "alert" /\ ~(now - last_notification < Cooldown))
        => (pc' = "sending" \/ send_result' = "encode_failed")

\* a delivery that succeeds is one more delivered alert, stamped with its capture time
DeliveryCounts ==
    (pc = "sending" /\ pc' # "sending" /\ send_result' = "ok")
        => (delivered' = Append(delivered, current_time)
            /\ last_notification' = current_time)

\* C1: a send_alert call made inside the cooldown window invokes no delivery and
\* changes no state, and a call made outside it is delivered, so any two delivered
\* alerts have capture times at least Cooldown seconds apart: alerts less than
\* Cooldown apart yield one delivery, alerts Cooldown or more apart yield two.
C1_CooldownGate ==
    /\ []DeliveredSpaced
    /\ [][SkipInCooldown /\ AttemptWhenDue /\ DeliveryCounts]_vars

\* two alerts were delivered and a later call was skipped inside the window
C1_Witness ==
    /\ Len(delivered) = 2
    /\ delivered[2] - delivered[1] >= Cooldown
    /\ send_result = "skipped"

\* C2: when bot.send_photo fails inside send_alert, last_notification keeps its
\* value and send_alert returns to its caller normally, so the next motion event
\* outside the old cooldown window is attempted again.
C2_FailedDelivery ==
    [][/\ (pc = "sending" /\ pc' # "sending" /\ send_result' = "fail")
            => (/\ last_notification' = last_notification
                /\ delivered' = delivered
                /\ pc' = AfterAlert
                /\ crash' = "none")
       /\ (send_result = "fail" /\ pc = "alert" /\ pc' # "alert"
             /\ ~(now - last_notification < Cooldown))
            => (pc' = "sending" \/ send_result' = "encode_failed")]_vars

\* a delivery failed, the timestamp is still the initial one, and the alert of the
\* next motion event is on its way
C2_Witness ==
    /\ send_result = "fail"
    /\ last_notification = 0
    /\ pc = "sending"

\* C3: no error while one camera is processed ends the check_motion loop.
C3_LoopNeverDies == pc # "crashed"

\* C4: after remove_camera ran while the cycle was suspended at an await, the cycle
\* goes on without error, does not process the removed camera, and no status,
\* reference frame or stream handle is left for it.
C4_RemoveMidCycle ==
    \A c \in removed_mid :
        /\ crash # "RuntimeError"
        /\ pc \in {"fetch", "detect", "mjpeg"} => cam_id # c
        /\ c \notin DOMAIN camera_status
        /\ c \notin DOMAIN prev_frames
        /\ c \notin DOMAIN mjpeg_streams

\* C5: every camera id that is a key of camera_status, prev_frames or
\* mjpeg_streams is a key of config["cameras"].
C5_EntriesRegistered ==
    (DOMAIN camera_status) \cup (DOMAIN prev_frames) \cup (DOMAIN mjpeg_streams)
        \subseteq Keys(cameras)

\* the reference image the revision keeps for a frame
StoredFor(f) == IF rev = 2 THEN f ELSE Reference(f)

\* C6: for a camera with no stored reference frame, detection reports no motion,
\* sends no alert and leaves a reference frame stored for the camera.
C6_FirstFrame ==
    (det # NoDet /\ det.ref = NoFrame)
        => /\ ~det.motion /\ ~det.raised /\ det.returned
           /\ pc = "next"
           /\ det.cam \in DOMAIN prev_frames
           /\ prev_frames[det.cam] = StoredFor(det.frame)

\* a first frame went through detection
C6_Witness == det # NoDet /\ det.ref = NoFrame /\ det.returned

\* C7: after every detection pass that returns, whatever its outcome, the stored
\* reference frame of the camera is the one derived from the frame just supplied.
C7_ReferenceIsLatest ==
    (det # NoDet /\ det.returned)
        => /\ det.cam \in DOMAIN prev_frames
           /\ prev_frames[det.cam] = StoredFor(det.frame)

\* C8: when the new frame's size differs from the stored reference's, detection
\* does not raise, reports no motion, and resets the reference to the new frame.
C8_SizeMismatch ==
    (det # NoDet /\ det.ref # NoFrame /\ ~SameSize(det.ref, det.frame))
        => /\ ~det.raised
           /\ ~det.motion
           /\ prev_frames[det.cam] = StoredFor(det.frame)

\* C9: when the same frame is supplied twice in a row for one camera, the second
\* detection reports no motion and sends no alert.
C9_IdenticalFrames ==
    (det # NoDet /\ det.before = det.frame)
        => (~det.motion /\ pc \notin {"alert", "sending"})

\* C10: at every moment and for every camera at most one opened stream connection
\* exists, the stored one and the unstored ones counted together.
C10_OneConnection == \A c \in Cams : openConns[c] <= 1

\* a connection was opened, its first read failed, and it is not stored
C10_Witness ==
    /\ mj.phase = "ret" /\ mj.local = "opened"
    /\ openConns[mj.cam] = 1
    /\ mj.cam \notin DOMAIN mjpeg_streams

\* C11: in one process_mjpeg_camera call whose read from the stored handle fails,
\* the old handle is released and removed, one new connection is attempted, and
\* the call returns after that single attempt whether it succeeded or not.
C11_SingleReconnect ==
    [][/\ (mj.phase = "read" /\ mj'.phase = "open" /\ mj.cam \in DOMAIN mjpeg_streams)
            => (/\ mj.cam \notin DOMAIN mjpeg_streams'
                /\ openConns'[mj.cam] = openConns[mj.cam] - 1
                /\ mj'.local = "released")
       /\ (mj.phase = "open" /\ mj' # mj)
            => (/\ mj' = NoCall \/ mj'.phase = "ret"
                /\ openConns'[mj.cam] - openConns[mj.cam] \in {0, 1})
       /\ (mj.phase = "ret" /\ mj' # mj)
            => (/\ mj' = NoCall
                /\ openConns'[mj.cam] <= openConns[mj.cam]
                /\ mjpeg_streams' = mjpeg_streams)]_vars

\* the stored handle failed its read and was released, the one reconnect attempt
\* failed too, and the call is about to return
C11_Witness ==
    /\ mj.phase = "ret" /\ mj.local = "released"
    /\ mj.cam \notin DOMAIN mjpeg_streams
    /\ openConns[mj.cam] = 0

\* C12: after a streaming fetch returned None, mjpeg_streams has no entry for the
\* camera; after it returned a frame from a newly opened connection, mjpeg_streams
\* holds that opened connection, the only one of the camera.
C12_HandleMatchesResult ==
    [][(mj.caller # "none" /\ mj' = NoCall)
          => (/\ mj.phase = "ret" => mj.cam \notin DOMAIN mjpeg_streams'
              /\ mj.phase = "open"
                    => (/\ mj.cam \in DOMAIN mjpeg_streams'
                        /\ mjpeg_streams'[mj.cam].open
                        /\ openConns'[mj.cam] = 1)
              /\ mj.caller = "sched" => ((frame' = NoFrame) <=> (mj.phase = "ret")))]_vars

\* a scheduled streaming fetch of a camera that had delivered frames before has
\* returned None, and no handle is stored for the camera
C12_Witness ==
    /\ rev = 3 /\ pc = "next" /\ cam_id \in Keys(cameras) /\ is_mjpeg_url(cam_url)
    /\ cam_id \in DOMAIN camera_status /\ camera_status[cam_id]
    /\ frame = NoFrame
    /\ cam_id \in DOMAIN prev_frames
    /\ cam_id \notin DOMAIN mjpeg_streams

\* C13: a manual snapshot and a scheduled fetch never work on the stream handles
\* at the same time: a process_mjpeg_camera call, once started, holds the lock and
\* runs to its return before any other caller starts one or touches the handles
\* (the only other code that touches them is cleanup, which takes the lock too).
C13_CallsSerialized ==
    /\ [](/\ (pc = "mjpeg") <=> (mj.caller = "sched")
          /\ lock = (IF mj.caller = "none" THEN "free" ELSE mj.caller))
    /\ [][/\ mj.caller # "none"
                => (mj' = NoCall \/ (mj'.caller = mj.caller /\ mj'.cam = mj.cam))
          /\ (mjpeg_streams' # mjpeg_streams \/ openConns' # openConns)
                => \/ mj.caller # "none" /\ mj' # mj
                   \/ mj.caller = "none" /\ lock = "free" /\ pc' = "cancelled"]_vars

\* a manual snapshot of a camera is inside process_mjpeg_camera while the
\* scheduled cycle, processing the same camera, waits for its alert delivery
C13_Witness ==
    /\ mj.caller = "snap" /\ mj.phase = "ret"
    /\ pc = "sending" /\ cam_id = mj.cam

\* C14: when the process has shut down, every stream connection opened during the
\* run, stored or not, has been released and mjpeg_streams is empty.
C14_ShutdownReleases ==
    pc = "cancelled"
        => (mjpeg_streams = EmptyMap /\ \A c \in Cams : openConns[c] = 0)

\* C15 as stated: the sweep of a cycle is over before the cycle's first fetch, and
\* every scheduled fetch acts on a status value written by the sweep of the same
\* cycle.
C15_StatusOfSameSweep ==
    pc \in {"fetch", "mjpeg"} => status_from[cam_id] = "cycle"

\* C15, amended: the sweep of a cycle writes a status for every registered camera
\* before the cycle's first fetch, and every scheduled fetch acts on a status value
\* written no earlier than that sweep: by the sweep itself, or by a
\* check_cameras_status call of a handler that ran while the cycle was suspended.
C15_SweepBeforeFetch ==
    /\ [](pc \in {"fetch", "mjpeg"}
            => (/\ status_from[cam_id] \in {"cycle", "handler"}
                /\ cam_id \in DOMAIN camera_status /\ camera_status[cam_id]))
    /\ [][/\ (pc = "cycle" /\ pc' # "cycle") => Keys(cameras) \subseteq DOMAIN camera_status'
          /\ (pc' = "fetch" /\ pc # "fetch") => pc = "next"
          /\ (pc' = "next" /\ pc \in {"sleep", "cycle"}) => pc = "cycle"]_vars

\* a scheduled fetch is about to be made for a camera whose status a handler's
\* check rewrote after the cycle's own sweep
C15_Witness ==
    pc \in {"fetch", "mjpeg"} /\ status_from[cam_id] = "handler"

\* C16 as stated: a frame is fetched only while motion detection is enabled and
\* only for a camera whose recorded status is reachable; detection runs only on a
\* fetched frame; send_alert is called only when detection reported motion.
C16_GatedWhileEnabled ==
    /\ pc \in {"fetch", "mjpeg"}
          => (/\ motion_enabled
              /\ cam_id \in DOMAIN camera_status /\ camera_status[cam_id])
    /\ pc = "detect" => frame # NoFrame
    /\ pc \in {"alert", "sending"} => det.motion

\* C16, amended: the cameras of a cycle are processed only if motion detection was
\* enabled when the cycle tested it after its sweep (a later switch-off does not
\* stop the cycle under way); a frame is fetched only for a camera whose recorded
\* status is reachable, an unknown status counting as unreachable; detection runs
\* only on a fetched frame; send_alert is called only when detection reported motion.
C16_GatedPipeline ==
    /\ [](/\ pc \in {"fetch", "mjpeg"}
                => (cam_id \in DOMAIN camera_status /\ camera_status[cam_id])
          /\ pc = "detect" => frame # NoFrame
          /\ pc \in {"alert", "sending"} => det.motion)
    /\ [][/\ (pc = "cycle" /\ pc' = "next") => motion_enabled
          /\ (pc' = "next" /\ pc # "next")
                => pc \in {"cycle", "fetch", "mjpeg", "detect", "alert", "sending", "store"}
          /\ (pc' = "fetch" /\ pc # "fetch")
                => (/\ pc = "next"
                    /\ cam_id' \in DOMAIN camera_status /\ camera_status[cam_id'])
          /\ (pc' = "mjpeg" /\ pc # "mjpeg") => pc = "fetch"
          /\ (pc' = "detect" /\ pc # "detect")
                => (pc \in {"fetch", "mjpeg"} /\ frame' # NoFrame)
          /\ (pc' = "alert" /\ pc # "alert") => (pc = "detect" /\ det'.motion)
          /\ (pc' = "sending" /\ pc # "sending") => pc = "alert"]_vars

\* motion detection was switched off while the cycle waited for an alert delivery,
\* and the cycle is fetching the next camera's frame
C16_Witness ==
    pc \in {"fetch", "mjpeg"} /\ ~motion_enabled

\* C17: set_sensitivity with a value outside 1000..100000, or with a text that is
\* not an integer, leaves config["threshold"] and the saved configuration as they
\* were; with a value inside the range it sets config["threshold"] to that value
\* and saves the configuration with it.
C17_SetSensitivity ==
    [][/\ \A v \in SensitivityInputs :
            \/ IF 1000 <= v /\ v <= 100000
               THEN /\ threshold' = v
                    /\ config_file' = Saved(cameras, motion_enabled, v)
               ELSE threshold' = threshold /\ config_file' = config_file
            \/ ~SetSensitivity(v)
       /\ \A t \in SensitivityTexts :
            \/ threshold' = threshold /\ config_file' = config_file
            \/ ~SetSensitivityText(t)]_vars

\* a value inside the range was set and saved
C17_Witness ==
    /\ rev = 2
    /\ threshold = SensitivityMin
    /\ config_file.threshold = SensitivityMin

\* C18: in every reachable state, the state right after load_config included, the
\* sensitivity threshold in use lies inside 1000..100000.
C18_ThresholdInRange ==
    rev = 2 => (1000 <= threshold /\ threshold <= 100000)

\* C19: after check_cameras_status returns, every camera registered at the time of
\* the sweep has a status entry equal to the outcome of its own probe, whatever
\* the probes of the other cameras did.
C19_OwnProbeOutcome ==
    /\ [](LET registered == Keys(cameras) IN
          \A probe \in [registered -> BOOLEAN] :
              LET after == Swept(camera_status, cameras, probe) IN
              \A c \in registered : c \in DOMAIN after /\ after[c] = probe[c])
    /\ [][(pc = "cycle" /\ pc' # "cycle")
            => \E probe \in [Keys(cameras) -> BOOLEAN] :
                  camera_status' = Swept(camera_status, cameras, probe)]_vars

\* a sweep has just returned in which one camera's probe failed and another's,
\* later in the registry, answered 200
C19_Witness ==
    /\ pc = "next" /\ iter.pos = 0
    /\ Len(cameras) = 2 /\ Keys(cameras) = Cams
    /\ ~camera_status[cameras[1].id]
    /\ camera_status[cameras[2].id]

\* C20: add_camera with a name and a URL completes with ok and without an error:
\* afterwards the registry maps the name to the given endpoint and a reachability
\* status is recorded for it.
C20_AddCameraOk ==
    [][\A c \in AddNames, u \in AddUrls :
          AddCamera(c, u)
              => (/\ AddCameraOutcome = "ok"
                  /\ c \in Keys(cameras')
                  /\ cameras'[SlotOf(cameras', c)].url = u
                  /\ c \in DOMAIN camera_status')]_vars

\* C21: a camera processed by a cycle is compared against the threshold that was
\* in force when that cycle began, whatever a command handler set in between: a
\* change made during the cycle is not used before the next cycle.
C21_SettingsOfCycleStart ==
    (/\ rev = 2 /\ pc = "detect"
     /\ cam_id \in DOMAIN prev_frames
     /\ SameSize(prev_frames[cam_id], frame))
        => threshold = threshold_at_sweep

\* C22: each piece of shared state has one writer.  A step that changes
\* camera_status is a reachability sweep; one that changes mjpeg_streams belongs
\* to a process_mjpeg_camera call or to the shutdown cleanup; one that changes
\* prev_frames belongs to detection; one that changes last_notification belongs to
\* send_alert.  Every other operation leaves the four unchanged.
C22_SingleWriter ==
    [][/\ camera_status' # camera_status
            => /\ pc = "cycle" \/ HandlerMayRun
               /\ \E probe \in [Keys(cameras) -> BOOLEAN] :
                      camera_status' = Swept(camera_status, cameras, probe)
               /\ cameras' = cameras
       /\ mjpeg_streams' # mjpeg_streams
            => mj.caller # "none" \/ pc' = "cancelled"
       /\ prev_frames' # prev_frames
            => pc \in {"detect", "store"}
       /\ last_notification' # last_notification
            => pc = "sending" /\ pc' = AfterAlert]_vars

\* C23: the cooldown test and the timestamp update of send_alert are not
\* interleaved with another alert attempt.  While a delivery is in flight the test
\* it passed still holds of last_notification; no step but the end of that
\* delivery changes last_notification or the time the attempt read; and a new
\* attempt makes its test only when no delivery is in flight.
C23_OneDeliveryInFlight ==
    /\ [](pc = "sending"
            => /\ current_time - last_notification >= Cooldown
               /\ current_time <= now)
    /\ [][/\ pc = "sending"
                => \/ /\ pc' = "sending"
                      /\ last_notification' = last_notification
                      /\ current_time' = current_time
                   \/ /\ pc' = AfterAlert
                      /\ last_notification' \in {last_notification, current_time}
          /\ (pc' = "sending" /\ pc # "sending")
                => pc = "alert" /\ current_time' = now]_vars

\* a delivery is in flight, time has passed since its cooldown test and a handler
\* has run in the meantime
C23_Witness ==
    /\ pc = "sending"
    /\ now > current_time
    /\ ~motion_enabled

\* C24: one last_notification gates every camera.  After an alert of this cycle
\* was delivered for one camera, last_notification is the capture time of that
\* alert, and a motion event that send_alert gets for a different camera within
\* Cooldown seconds of it is dropped: no delivery, no change of the timestamp.
C24_OtherCameraSuppressed ==
    /\ [](alerted # "-"
            => /\ Len(delivered) > 0
               /\ last_notification = delivered[Len(delivered)])
    /\ [][(/\ pc = "alert" /\ pc' # "alert"
           /\ alerted \notin {"-", cam_id}
           /\ now - last_notification < Cooldown)
              => (/\ pc' = AfterAlert
                  /\ send_result' = "skipped"
                  /\ delivered' = delivered
                  /\ last_notification' = last_notification)]_vars

\* motion was detected on a camera and its alert was dropped inside the window
\* that the alert delivered for another camera had opened
C24_Witness ==
    /\ alerted \notin {"-", cam_id}
    /\ det.cam = cam_id /\ det.motion
    /\ send_result = "skipped"
    /\ pc = AfterAlert
    /\ now - last_notification < Cooldown

\* C25: with every awaited call returning and a fair event loop, check_motion
\* reaches its sleep and starts a new cycle again and again, forever.
C25_CyclesForever ==
    /\ []<>(pc = "sleep")
    /\ []<>(pc = "cycle")

\* C26: self.lock of rev 3 never deadlocks.  The lock is held exactly while a
\* process_mjpeg_camera call is in progress, and that call can always take its
\* next step; the lock is taken only when it is free, by the sweep and by cleanup
\* as well, which give it back within their own step; and the call gives it back
\* on every way out, a frame, a failed read or open, or an exception.
C26_LockNeverDeadlocks ==
    /\ [](/\ (lock = "free") <=> (mj.caller = "none")
          /\ lock # "free"
                => /\ lock = mj.caller
                   /\ ENABLED (MjpegRead \/ MjpegOpen \/ MjpegReturn))
    /\ [][/\ (lock' # lock /\ lock' # "free") => lock = "free"
          /\ (camera_status' # camera_status \/ pc' = "cancelled") => lock = "free"
          /\ (mj.caller # "none" /\ mj' = NoCall) => lock' = "free"]_vars

\* a manual snapshot holds the lock on the way out of a failed reconnection, after
\* the stored stream failed to read, while check_motion sleeps between two cycles
C26_Witness ==
    /\ rev = 3
    /\ lock = "snap" /\ mj.phase = "ret" /\ mj.local = "released"
    /\ pc = "sleep"

====
